---------------------------- MODULE Spec2Model ----------------------------
(***************************************************************************)
(* A model of src/wire.go (package DHTCrawl): one metadata download from   *)
(* one peer.  Two goroutines run per attempt: Wire.Download (dial, Start,  *)
(* the read loop feeding Processor.Write and, inline, the frame handlers)  *)
(* and Wire.Pipe (the dispatch loop).  They meet on three unbuffered       *)
(* channels: Processor.output, Processor.event and Wire.Result.            *)
(*                                                                         *)
(* Bytes are integers 0..255 and byte strings are sequences of them.  The  *)
(* peer and the caller of Download are the environment.                    *)
(***************************************************************************)
EXTENDS Integers, Sequences, FiniteSets, TLC

(***************************************************************************)
(* Bounds of the model.                                                    *)
(***************************************************************************)
\* messages the peer sends after its handshake
MaxPeerMsgs == 3
\* reads that return fewer bytes than the socket holds
MaxShortReads == 2
\* the longest such short read, in bytes
MaxShortLen == 1
\* iterations of Pipe's loop on the closed event channel that are counted
MaxCloses == 2
\* unread bytes in the socket at which the peer waits before it sends more
\* (one more than a 68-byte handshake: a message may follow it at once)
PeerWindow == 69

(***************************************************************************)
(* Program constants (wire.go lines 14-32).                                *)
(***************************************************************************)
\* "BitTorrent protocol"
BtProtocol == <<66, 105, 116, 84, 111, 114, 114, 101, 110, 116, 32,
                112, 114, 111, 116, 111, 99, 111, 108>>
BtExtendedID == 0
BtMessageID == 20
PieceSize == 16384
MaxMetadataSize == 1048576
\* EventError = iota - 1 on the sixth line of the const block, and so on
EventError == 4
EventHandshake == 5
EventExtended == 6
EventPiece == 7
EventDone == 8
BtReserved == <<0, 0, 0, 0, 0, 16, 0, 1>>
\* make([]byte, 512) in Download
BufSize == 512
\* the 8 reserved bytes, the 20-byte hash and the 20-byte peer id that follow
\* the protocol name in a handshake (length+48 in handleHandshake)
HandshakeTail == 48

(***************************************************************************)
(* Byte-string helpers.                                                    *)
(***************************************************************************)
Min(a, b) == IF a < b THEN a ELSE b

Rep(x, n) == [i \in 1..n |-> x]

\* Go's s[n:]; the empty string when n is past the end
Drop(s, n) == SubSeq(s, n + 1, Len(s))

Take(s, n) == SubSeq(s, 1, n)

RECURSIVE Flatten(_)
\* bytes.Join(chunks, []byte{})
Flatten(ss) == IF ss = <<>> THEN <<>> ELSE Head(ss) \o Flatten(Tail(ss))

\* bytes.Index(s, sep) as a 0-based offset, -1 when sep does not occur
Index(s, sep) ==
    LET hits == {i \in 1..(Len(s) - Len(sep) + 1) :
                    SubSeq(s, i, i + Len(sep) - 1) = sep}
    IN  IF hits = {} THEN -1
        ELSE (CHOOSE i \in hits : \A j \in hits : i <= j) - 1

\* binary.Write(data, binary.BigEndian, uint32(n))
BE32(n) == << (n \div 16777216) % 256, (n \div 65536) % 256,
              (n \div 256) % 256, n % 256 >>

\* binary.Read(bytes.NewReader(data), binary.BigEndian, &length)
ReadBE32(b) == b[1] * 16777216 + b[2] * 65536 + b[3] * 256 + b[4]

\* int(math.Ceil(float64(a) / float64(b))), b > 0, a of either sign
CeilDiv(a, b) == -((-a) \div b)

(***************************************************************************)
(* The structured-data codec (github.com/zeebo/bencode), as the wire       *)
(* format gives it: i<decimal>e, <len>:<bytes>, d<key><value>...e,         *)
(* l<value>...e.  A value is a record; a dictionary holds its pairs in     *)
(* encoding order.                                                         *)
(***************************************************************************)
VInt(n) == [t |-> "int", n |-> n, s |-> <<>>, d |-> <<>>]
VStr(s) == [t |-> "str", n |-> 0, s |-> s, d |-> <<>>]
VDict(pairs) == [t |-> "dict", n |-> 0, s |-> <<>>, d |-> pairs]
VList(items) == [t |-> "list", n |-> 0, s |-> <<>>, d |-> items]
\* a Go value the codec has no encoding for (here: the *Processor)
VPtr == [t |-> "ptr", n |-> 0, s |-> <<>>, d |-> <<>>]

K_m == <<109>>
K_ut_metadata == <<117, 116, 95, 109, 101, 116, 97, 100, 97, 116, 97>>
K_metadata_size == <<109, 101, 116, 97, 100, 97, 116, 97, 95, 115, 105, 122, 101>>
K_msg_type == <<109, 115, 103, 95, 116, 121, 112, 101>>
K_piece == <<112, 105, 101, 99, 101>>
K_name == <<110, 97, 109, 101>>

IsDigit(c) == c >= 48 /\ c <= 57

RECURSIVE Digits(_)
Digits(n) == IF n < 10 THEN <<48 + n>> ELSE Digits(n \div 10) \o <<48 + (n % 10)>>

BInt(n) == <<105>> \o (IF n < 0 THEN <<45>> \o Digits(-n) ELSE Digits(n)) \o <<101>>

BStr(s) == Digits(Len(s)) \o <<58>> \o s

RECURSIVE Encodable(_)
Encodable(v) ==
    CASE v.t = "int" -> TRUE
      [] v.t = "str" -> TRUE
      [] v.t \in {"dict", "list"} ->
            \A i \in 1..Len(v.d) :
                Encodable(IF v.t = "dict" THEN v.d[i][2] ELSE v.d[i])
      [] OTHER -> FALSE

RECURSIVE EncodeVal(_)
RECURSIVE EncodePairs(_)
RECURSIVE EncodeItems(_)
EncodePairs(ps) ==
    IF ps = <<>> THEN <<>>
    ELSE BStr(Head(ps)[1]) \o EncodeVal(Head(ps)[2]) \o EncodePairs(Tail(ps))

EncodeItems(xs) ==
    IF xs = <<>> THEN <<>> ELSE EncodeVal(Head(xs)) \o EncodeItems(Tail(xs))

EncodeVal(v) ==
    CASE v.t = "int" -> BInt(v.n)
      [] v.t = "str" -> BStr(v.s)
      [] v.t = "dict" -> <<100>> \o EncodePairs(v.d) \o <<101>>
      [] v.t = "list" -> <<108>> \o EncodeItems(v.d) \o <<101>>
      [] OTHER -> <<>>

\* meta, _ := bencode.EncodeBytes(v): nil when v cannot be encoded (the error
\* is dropped by the callers)
EncodeBytes(v) == IF Encodable(v) THEN EncodeVal(v) ELSE <<>>

ParseFail == [ok |-> FALSE, v |-> VInt(0), nx |-> 0]
ParseOk(v, nx) == [ok |-> TRUE, v |-> v, nx |-> nx]

RECURSIVE ScanNum(_, _, _, _)
\* the decimal digits of b from position i on (at most 9 of them)
ScanNum(b, i, acc, cnt) ==
    IF i <= Len(b) /\ IsDigit(b[i]) /\ cnt < 9
    THEN ScanNum(b, i + 1, acc * 10 + (b[i] - 48), cnt + 1)
    ELSE [n |-> acc, nx |-> i, cnt |-> cnt]

RECURSIVE ParseVal(_, _)
RECURSIVE ParseDictItems(_, _, _)
RECURSIVE ParseListItems(_, _, _)
ParseDictItems(b, i, acc) ==
    IF i > Len(b) THEN ParseFail
    ELSE IF b[i] = 101 THEN ParseOk(VDict(acc), i + 1)
    ELSE LET k == ParseVal(b, i)
         IN  IF ~k.ok \/ k.v.t # "str" THEN ParseFail
             ELSE LET v == ParseVal(b, k.nx)
                  IN  IF ~v.ok THEN ParseFail
                      ELSE ParseDictItems(b, v.nx, Append(acc, <<k.v.s, v.v>>))

ParseListItems(b, i, acc) ==
    IF i > Len(b) THEN ParseFail
    ELSE IF b[i] = 101 THEN ParseOk(VList(acc), i + 1)
    ELSE LET v == ParseVal(b, i)
         IN  IF ~v.ok THEN ParseFail
             ELSE ParseListItems(b, v.nx, Append(acc, v.v))

ParseVal(b, i) ==
    IF i > Len(b) THEN ParseFail
    ELSE IF b[i] = 105
    THEN LET neg == i + 1 <= Len(b) /\ b[i + 1] = 45
             r == ScanNum(b, IF neg THEN i + 2 ELSE i + 1, 0, 0)
         IN  IF r.cnt > 0 /\ r.nx <= Len(b) /\ b[r.nx] = 101
             THEN ParseOk(VInt(IF neg THEN -r.n ELSE r.n), r.nx + 1)
             ELSE ParseFail
    ELSE IF IsDigit(b[i])
    THEN LET r == ScanNum(b, i, 0, 0)
         IN  IF r.nx <= Len(b) /\ b[r.nx] = 58 /\ r.nx + r.n <= Len(b)
             THEN ParseOk(VStr(SubSeq(b, r.nx + 1, r.nx + r.n)), r.nx + r.n + 1)
             ELSE ParseFail
    ELSE IF b[i] = 100 THEN ParseDictItems(b, i + 1, <<>>)
    ELSE IF b[i] = 108 THEN ParseListItems(b, i + 1, <<>>)
    ELSE ParseFail

\* err := bencode.DecodeBytes(data, &val) with val a map[string]interface{}:
\* the first value of data must be a dictionary
DecodeBytes(data) ==
    LET r == ParseVal(data, 1)
    IN  IF r.ok /\ r.v.t = "dict" THEN r ELSE ParseFail

\* m[key] of a decoded map: the last pair with that key, or "absent"
HasKey(dict, key) == \E i \in 1..Len(dict.d) : dict.d[i][1] = key

Lookup(dict, key) ==
    LET hits == {i \in 1..Len(dict.d) : dict.d[i][1] = key}
    IN  dict.d[CHOOSE i \in hits : \A j \in hits : j <= i][2]

\* v, ok := m[key].(int64)
IsInt(dict, key) == HasKey(dict, key) /\ Lookup(dict, key).t = "int"

\* v, ok := m[key].(map[string]interface{})
IsMap(dict, key) == HasKey(dict, key) /\ Lookup(dict, key).t = "dict"


(***************************************************************************)
(* Inputs of one attempt and the outbound message builders (Message Codec). *)
(***************************************************************************)
\* the 20-byte content hash handed to Download
Hash == Rep(72, 20)

\* NewNodeID(): the 20-byte local peer id, generated outside wire.go
NewNodeID == Rep(78, 20)

packetHandshakeData == <<19>> \o BtProtocol \o BtReserved \o Hash \o NewNodeID

packetExtendedData ==
    LET meta == EncodeBytes(VDict(<< <<K_m, VDict(<< <<K_ut_metadata, VInt(1)>> >>)>> >>))
        body == <<BtMessageID, BtExtendedID>> \o meta
    IN  BE32(Len(body)) \o body

\* the dictionary packetPieceRequestData hands to the codec: the value under
\* "piece" is p, the *Processor, and not the index i
PieceRequestDict(i) == VDict(<< <<K_msg_type, VInt(0)>>, <<K_piece, VPtr>> >>)

packetPieceRequestData(i, utm) ==
    LET meta == EncodeBytes(PieceRequestDict(i))
        body == <<BtMessageID, utm % 256>> \o meta
    IN  BE32(Len(body)) \o body

(***************************************************************************)
(* What the peer may send.                                                 *)
(***************************************************************************)
PeerHash == Rep(72, 20)
PeerId == Rep(80, 20)
FooProtocol == <<70, 111, 111, 32, 112, 114, 111, 116, 111, 99, 111, 108>>

PeerHandshakeBytes(proto, reserved) ==
    <<Len(proto)>> \o proto \o reserved \o PeerHash \o PeerId

HsKinds == {"valid", "noext", "foo"}

PeerHs(kind) ==
    CASE kind = "valid" -> PeerHandshakeBytes(BtProtocol, BtReserved)
      [] kind = "noext" -> PeerHandshakeBytes(BtProtocol, <<0, 0, 0, 0, 0, 239, 0, 1>>)
      [] kind = "foo" -> PeerHandshakeBytes(FooProtocol, BtReserved)

\* a length-prefixed message
Msg(body) == BE32(Len(body)) \o body

ExtDict(ut, size) ==
    VDict(<< <<K_m, VDict(<< <<K_ut_metadata, VInt(ut)>> >>)>>,
             <<K_metadata_size, VInt(size)>> >>)

\* an extended handshake with message id `id`
ExtHsMsg(id, ut, size) == Msg(<<id, 0>> \o EncodeVal(ExtDict(ut, size)))

PieceDict(ty, n) == VDict(<< <<K_msg_type, VInt(ty)>>, <<K_piece, VInt(n)>> >>)

\* a metadata piece message with message id `id` and sub-id 1
PieceMsg(id, ty, n, payload) == Msg(<<id, 1>> \o EncodeVal(PieceDict(ty, n)) \o payload)

\* pieces of the metadata d4:name1:ae
PayA == <<100, 52, 58, 110, 97, 109, 101>>
PayB == <<49, 58, 97, 101>>
\* the whole metadata d4:name1:be in one piece
PayC == <<100, 52, 58, 110, 97, 109, 101, 49, 58, 98, 101>>

KeepAlive == <<0, 0, 0, 0>>

\* The peer follows one of these profiles: the messages it may send, in any
\* order and number, after its handshake.
Profiles == {"metadata", "extended", "plain", "lacking"}

\* choke: a message without the extension protocol, a body of one byte (id 0)
Choke == <<0, 0, 0, 1, 0>>

\* extended handshakes that lack a key: no "m", and an "m" without
\* "ut_metadata"
ExtHsNoM == Msg(<<0, 0>> \o EncodeVal(VDict(<< <<K_metadata_size, VInt(20000)>> >>)))
ExtHsNoUt ==
    Msg(<<0, 0>> \o EncodeVal(VDict(<< <<K_m, VDict(<<>>)>>,
                                       <<K_metadata_size, VInt(20000)>> >>)))

PeerMenu(profile) ==
    CASE profile = "metadata" ->
            { ExtHsMsg(0, 2, 20000),
              PieceMsg(0, 1, 0, PayA),
              PieceMsg(0, 1, 1, PayB),
              PieceMsg(0, 1, 0, PayC) }
      [] profile = "extended" ->
            { ExtHsMsg(BtMessageID, 2, 20000),
              ExtHsMsg(0, 2, 0),
              ExtHsMsg(0, 2, -1),
              ExtHsMsg(0, 0, 20000),
              ExtHsMsg(0, 2, 1048577) }
      [] profile = "plain" ->
            { KeepAlive, Choke }
      [] profile = "lacking" ->
            { ExtHsNoM, ExtHsNoUt }

(***************************************************************************)
(* State.                                                                  *)
(***************************************************************************)
VARIABLES
    rpc,          \* where the goroutine running Download is
    ppc,          \* where the goroutine running Pipe is
    sending,      \* the channel send the Download goroutine is blocked in
    pipeVal,      \* the result Pipe is sending on Wire.Result
    event,        \* Processor.event: "nil", "open" or "closed"
    conn,         \* Wire.Conn: "none", "open" or "closed" (by Conn.Close)
    closes,       \* calls of Conn.Close made by Pipe
    peerClosed,   \* the peer has closed its side
    inbound,      \* bytes the peer sent that no Conn.Read returned yet
    buf,          \* Download's buf, as far as a chunk of Data refers to it
    Data,         \* Processor.Data: the chunks not yet consumed
    Size,         \* Processor.Size
    Handler,      \* Processor.Handler: which function is installed
    HandlerSize,  \* Processor.HandlerSize
    length,       \* the variable `length` captured by handleHandshake's closure
    frame,        \* the argument `data` of the handler that is running
    utmetadata,   \* Processor.utmetadata
    metadata,     \* Processor.metadata: the piece table
    pieceLength,  \* Processor.pieceLength
    recvedPiece,  \* Processor.recvedPiece
    reqI,         \* the loop variable i of handleExtHandshake
    fault,        \* why the program panicked, "" while it has not
    emitted,      \* history: event types handed to `p.event <-`, in order
    received,     \* history: event types Pipe received, in order
    written,      \* history: messages Pipe wrote with Conn.Write, in order
    results,      \* history: values the caller received from Wire.Result
    arrived,      \* history: <<index, piece>> stored in the table since it was made
    assembled,    \* history: the byte strings handleDone joined, in order
    peerHs,       \* history: which handshake the peer sent, "none" before
    profile,      \* history: the profile the peer follows, "none" before
    nSent,        \* history: messages the peer sent after its handshake
    shortReads    \* history: reads that returned less than was available

procVars == <<Data, Size, Handler, HandlerSize, length, frame, utmetadata,
              metadata, pieceLength, recvedPiece, reqI>>
chanVars == <<sending, pipeVal, event>>
netVars == <<conn, closes, peerClosed, inbound, buf>>
peerVars == <<peerHs, profile, nSent>>
histVars == <<emitted, received, written, results, arrived, assembled,
              peerVars, shortReads>>
vars == <<rpc, ppc, fault, procVars, chanVars, netVars, histVars>>

NoSend == [ch |-> "none", val |-> <<>>]
Ev(type, reason, result) == [type |-> type, reason |-> reason, result |-> result]

\* NewError(reason)
NewError(reason) == [error |-> reason, data |-> <<>>]

\* the MetadataResult handleDone builds from the decoded metadata
NewResult(data) == [error |-> "", data |-> data]

\* an element of metadata: nil, or the bytes stored by handlePiece
NilPiece == [nil |-> TRUE, b |-> <<>>]
Piece(b) == [nil |-> FALSE, b |-> b]

\* chunks of Processor.Data: a slice buf[:n] of Download's buffer, or bytes of
\* an array of its own (the rest of a joined buffer)
Alias(n) == [alias |-> TRUE, n |-> n, b |-> <<>>]
Own(b) == [alias |-> FALSE, n |-> Len(b), b |-> b]
ChunkBytes(c) == IF c.alias THEN Take(buf, c.n) ELSE c.b

(***************************************************************************)
(* NewWire: the channels Result and output are made, event is left nil.    *)
(***************************************************************************)
NewWire ==
    /\ rpc = "new" /\ ppc = "none" /\ fault = ""
    /\ sending = NoSend /\ pipeVal = NewError("") /\ event = "nil"
    /\ conn = "none" /\ closes = 0 /\ peerClosed = FALSE
    /\ inbound = <<>> /\ buf = <<>>
    /\ Data = <<>> /\ Size = 0 /\ Handler = "none" /\ HandlerSize = 0
    /\ length = 0 /\ frame = <<>>
    /\ utmetadata = 0 /\ metadata = <<>> /\ pieceLength = 0 /\ recvedPiece = 0
    /\ reqI = 0
    /\ emitted = <<>> /\ received = <<>> /\ written = <<>> /\ results = <<>>
    /\ arrived = <<>> /\ assembled = <<>>
    /\ peerHs = "none" /\ profile = "none" /\ nSent = 0 /\ shortReads = 0

Init == NewWire

\* the program has not panicked
Running == fault = ""

\* the Download goroutine is not blocked in a channel send
Free == sending.ch = "none"

(***************************************************************************)
(* Code of the package outside wire.go may give the Processor an event     *)
(* channel before Download is called (an unbuffered one, as the design     *)
(* describes); nothing in wire.go does.                                    *)
(***************************************************************************)
MakeEvent ==
    /\ rpc = "new" /\ event = "nil"
    /\ event' = "open"
    /\ UNCHANGED <<rpc, ppc, fault, procVars, sending, pipeVal, netVars, histVars>>

(***************************************************************************)
(* Processor.process                                                       *)
(***************************************************************************)
process(size, handler) ==
    /\ HandlerSize' = size
    /\ Handler' = handler

\* The four ways a statement of the Download goroutine ends; each sets rpc,
\* sending, fault and emitted.
\* the program panics: every goroutine stops
Panic(why) ==
    /\ fault' = why
    /\ rpc' = "panic"
    /\ sending' = NoSend
    /\ UNCHANGED emitted

\* the statement `p.event <- e`, after which the goroutine goes on at `next`:
\* a send on a closed channel panics, a send on a nil channel blocks for ever
SendEvent(e, next) ==
    IF event = "closed"
    THEN Panic("send on closed channel")
    ELSE /\ sending' = [ch |-> "event", val |-> e]
         /\ emitted' = Append(emitted, e.type)
         /\ rpc' = next
         /\ UNCHANGED fault

\* the statement `p.output <- data`
SendOutput(data, next) ==
    /\ sending' = [ch |-> "output", val |-> data]
    /\ rpc' = next
    /\ UNCHANGED <<fault, emitted>>

\* no channel is used: the goroutine goes on at `next`
Goto(next) ==
    /\ rpc' = next
    /\ UNCHANGED <<sending, fault, emitted>>

\* Processor.End up to its send (line 178); EndClose is line 179
End(reason) == SendEvent(Ev(EventError, reason, <<>>), "End")

(***************************************************************************)
(* Wire.Download                                                           *)
(***************************************************************************)
\* lines 103-111: the dial, `go w.Pipe()` and Start up to its send
Download ==
    /\ rpc = "new"
    /\ \/ /\ sending' = [ch |-> "result", val |-> NewError("dial")]
          /\ rpc' = "returned"
          /\ UNCHANGED <<ppc, conn>>
       \/ /\ conn' = "open"
          /\ ppc' = "select"
          /\ SendOutput(packetHandshakeData, "Start")
    /\ UNCHANGED <<fault, procVars, pipeVal, event, closes, peerClosed, inbound, buf,
                   histVars>>

\* Start after its send: handleHandshake installs the length-byte handler
Start ==
    /\ rpc = "Start" /\ Free /\ Running
    /\ process(1, "handshakeLen")
    /\ rpc' = "read"
    /\ UNCHANGED <<ppc, fault, Data, Size, length, frame, utmetadata, metadata,
                   pieceLength, recvedPiece, reqI, chanVars, netVars, histVars>>

\* the sizes Conn.Read may return when `avail` bytes are waiting
ReadSizes(avail) ==
    {Min(avail, BufSize)} \cup
    (IF shortReads < MaxShortReads
     THEN {k \in 1..MaxShortLen : k < Min(avail, BufSize)} ELSE {})

\* lines 114 and 119, and Write up to its loop: n bytes are read into buf[:n]
\* and the slice buf[:n] itself is appended to Data
Read ==
    /\ rpc = "read" /\ Running
    /\ conn = "open" /\ inbound # <<>>
    /\ \E n \in ReadSizes(Len(inbound)) :
          /\ buf' = Take(inbound, n) \o Drop(buf, n)
          /\ inbound' = Drop(inbound, n)
          /\ Size' = Size + n
          /\ Data' = Append(Data, Alias(n))
          /\ shortReads' = IF n < Min(Len(inbound), BufSize)
                           THEN shortReads + 1 ELSE shortReads
    /\ rpc' = "write"
    /\ UNCHANGED <<ppc, fault, Handler, HandlerSize, length, frame, utmetadata,
                   metadata, pieceLength, recvedPiece, reqI, chanVars, conn, closes,
                   peerClosed, emitted, received, written, results, arrived,
                   assembled, peerVars>>

\* lines 115-117: Conn.Read fails (the connection was closed here, or the peer
\* closed and nothing is left to read); the error is sent on Result and the
\* loop is left
ReadError ==
    /\ rpc = "read" /\ Running
    /\ conn = "closed" \/ (peerClosed /\ inbound = <<>>)
    /\ sending' = [ch |-> "result", val |-> NewError("read")]
    /\ rpc' = "returned"
    /\ UNCHANGED <<ppc, fault, procVars, pipeVal, event, netVars, histVars>>

(***************************************************************************)
(* Processor.Write: the loop                                               *)
(***************************************************************************)
\* bytes.Join(p.Data, []byte{})
Joined == Flatten([i \in 1..Len(Data) |-> ChunkBytes(Data[i])])

\* lines 154-160 of one iteration: the frame is cut off the joined buffer and
\* the rest, if any, becomes the only chunk
Extract ==
    /\ rpc = "write" /\ Free /\ Running
    /\ Size >= HandlerSize
    /\ Size' = Size - HandlerSize
    /\ Data' = IF Size - HandlerSize = 0 THEN <<>>
               ELSE <<Own(Drop(Joined, HandlerSize))>>

\* the frame handed to the handler: buf[:p.HandlerSize]
Frame == Take(Joined, HandlerSize)

\* the loop ends and Write returns to the read loop.  Of buf only what a
\* chunk of Data still refers to is kept: nothing else of it is read again.
WriteReturn ==
    /\ rpc = "write" /\ Free /\ Running
    /\ Size < HandlerSize
    /\ rpc' = "read"
    /\ LET ns == {Data[i].n : i \in {j \in 1..Len(Data) : Data[j].alias}}
           keep == IF ns = {} THEN 0 ELSE CHOOSE n \in ns : \A m \in ns : m <= n
       IN  buf' = Take(buf, keep)
    /\ UNCHANGED <<ppc, fault, procVars, chanVars, conn, closes, peerClosed,
                   inbound, histVars>>


(***************************************************************************)
(* The frame handlers (Protocol State Machine).  A handler that sends on a *)
(* channel goes on, once the send is done, in the action named by rpc.     *)
(***************************************************************************)
\* lines 183-185: the length byte of the peer's protocol name
handleHandshakeLen ==
    /\ Extract /\ Handler = "handshakeLen"
    /\ length' = Frame[1]
    /\ process(Frame[1] + HandshakeTail, "handshakeBody")
    /\ Goto("write")
    /\ UNCHANGED <<ppc, frame, utmetadata, metadata, pieceLength, recvedPiece, reqI,
                   pipeVal, event, netVars, received, written, results, arrived,
                   assembled, peerVars, shortReads>>

\* reserved[5]&0x10 == 0
ExtensionBitClear(reserved) == (reserved[6] \div 16) % 2 = 0

\* lines 186-196: the handshake body up to the HandshakeOk event
handleHandshake ==
    /\ Extract /\ Handler = "handshakeBody"
    /\ LET protocol == Take(Frame, length)
           reserved == Drop(Frame, length)
       IN  IF protocol # BtProtocol
           THEN End("this is not BitTorrent protocol")
           ELSE IF ExtensionBitClear(reserved)
           THEN End("peer reject")
           ELSE SendEvent(Ev(EventHandshake, "", <<>>), "handshakeOk")
    /\ UNCHANGED <<ppc, Handler, HandlerSize, length, frame, utmetadata, metadata,
                   pieceLength, recvedPiece, reqI, pipeVal, event, netVars,
                   received, written, results, arrived, assembled, peerVars,
                   shortReads>>

\* lines 197-198: after the HandshakeOk event was received
handshakeOk ==
    /\ rpc = "handshakeOk" /\ Free /\ Running
    /\ process(4, "handleHead")
    /\ SendOutput(packetExtendedData, "write")
    /\ UNCHANGED <<ppc, Data, Size, length, frame, utmetadata, metadata, pieceLength,
                   recvedPiece, reqI, pipeVal, event, netVars, received, written,
                   results, arrived, assembled, peerVars, shortReads>>

\* Processor.End, line 179: close(p.event)
EndClose ==
    /\ rpc = "End" /\ Free /\ Running
    /\ IF event = "open"
       THEN event' = "closed" /\ Goto("write")
       ELSE UNCHANGED event /\ Panic("close of closed channel")
    /\ frame' = <<>>
    /\ UNCHANGED <<ppc, Data, Size, Handler, HandlerSize, length, utmetadata, metadata,
                   pieceLength, recvedPiece, reqI, pipeVal, netVars, received,
                   written, results, arrived, assembled, peerVars, shortReads>>

\* a length test that lets a zero length through
HasBodyOrNone(n) == n >= 0

\* line 206: int(length) > 0
HasBody(n) == n > 0

\* lines 203-209
handleHead ==
    /\ Extract /\ Handler = "handleHead"
    /\ IF HasBody(ReadBE32(Frame))
       THEN process(ReadBE32(Frame), "handleBody")
       ELSE UNCHANGED <<Handler, HandlerSize>>
    /\ Goto("write")
    /\ UNCHANGED <<ppc, length, frame, utmetadata, metadata, pieceLength, recvedPiece,
                   reqI, pipeVal, event, netVars, received, written, results,
                   arrived, assembled, peerVars, shortReads>>

\* data[0] == BtExtendedID, the test of handleBody
IsExtendedMessage(data) == data[1] = BtExtendedID

\* lines 211-230: handleBody and handleExtended, up to the first statement of
\* handleExtHandshake or handlePiece (an event send)
handleBody ==
    /\ Extract /\ Handler = "handleBody"
    /\ process(4, "handleHead")
    /\ IF ~IsExtendedMessage(Frame)
       THEN Goto("write") /\ frame' = <<>>
       ELSE IF Len(Frame) < 2
       THEN Panic("index out of range: data[1]") /\ frame' = <<>>
       ELSE IF Frame[2] = 0
       THEN IF ~DecodeBytes(Drop(Frame, 2)).ok
            THEN End("decode extended meta info error") /\ frame' = <<>>
            ELSE SendEvent(Ev(EventExtended, "", <<>>), "handleExtHandshake")
                 /\ frame' = Frame
       ELSE SendEvent(Ev(EventPiece, "", <<>>), "handlePiece") /\ frame' = Frame
    /\ UNCHANGED <<ppc, length, utmetadata, metadata, pieceLength, recvedPiece, reqI,
                   pipeVal, event, netVars, received, written, results, arrived,
                   assembled, peerVars, shortReads>>

\* the test of line 241
InvalidExtended(meta, size) == meta = 0 \/ size = 0 \/ size > MaxMetadataSize

\* line 238
PieceCount(size) == CeilDiv(size, PieceSize)

\* lines 234-246: handleExtHandshake after its Extended event was received,
\* up to the first piece request
handleExtHandshake ==
    /\ rpc = "handleExtHandshake" /\ Free /\ Running
    /\ LET ext == DecodeBytes(Drop(frame, 2)).v
           okM == IsInt(ext, K_metadata_size) /\ IsMap(ext, K_m)
           okUt == okM /\ IsInt(Lookup(ext, K_m), K_ut_metadata)
       IN  IF ~okUt
           THEN /\ Goto("write")
                /\ frame' = <<>>
                /\ UNCHANGED <<utmetadata, pieceLength, metadata, arrived>>
           ELSE LET size == Lookup(ext, K_metadata_size).n
                    meta == Lookup(Lookup(ext, K_m), K_ut_metadata).n
                IN  /\ utmetadata' = meta
                    /\ pieceLength' = PieceCount(size)
                    /\ IF PieceCount(size) < 0
                       THEN /\ Panic("makeslice: len out of range")
                            /\ UNCHANGED <<metadata, frame, arrived>>
                       ELSE /\ metadata' = Rep(NilPiece, PieceCount(size))
                            /\ arrived' = <<>>
                            /\ IF InvalidExtended(meta, size)
                               THEN End("extended invalid") /\ frame' = <<>>
                               ELSE IF PieceCount(size) > 0
                               THEN /\ SendOutput(packetPieceRequestData(0, meta),
                                                  "requests")
                                    /\ UNCHANGED frame
                               ELSE Goto("write") /\ frame' = <<>>
    /\ reqI' = 0
    /\ UNCHANGED <<ppc, Data, Size, Handler, HandlerSize, length, recvedPiece, pipeVal,
                   event, netVars, received, written, results, assembled, peerVars,
                   shortReads>>

\* lines 245-247: the rest of the loop, after a piece request was received
requests ==
    /\ rpc = "requests" /\ Free /\ Running
    /\ IF reqI + 1 < pieceLength
       THEN /\ SendOutput(packetPieceRequestData(reqI + 1, utmetadata), "requests")
            /\ reqI' = reqI + 1
            /\ UNCHANGED frame
       ELSE /\ Goto("write")
            /\ reqI' = 0
            /\ frame' = <<>>
    /\ UNCHANGED <<ppc, Data, Size, Handler, HandlerSize, length, utmetadata, metadata,
                   pieceLength, recvedPiece, pipeVal, event, netVars, received,
                   written, results, arrived, assembled, peerVars, shortReads>>

\* a table filled in the order of arrival: the piece goes to the next slot
\* whatever index its message carries
StorePieceByArrival(table, n, piece) ==
    [table EXCEPT ![recvedPiece + 1] = Piece(piece)]

\* line 279: p.metadata[int(n)] = piece
StorePiece(table, n, piece) == [table EXCEPT ![n + 1] = Piece(piece)]

\* line 287: bytes.Join(p.metadata, []byte{})
JoinPieces(table) == Flatten([i \in 1..Len(table) |-> table[i].b])

\* line 281: the test that starts the assembly
Complete(count, pieces) == count = pieces

\* lines 255-296: handlePiece after its Piece event was received and, when all
\* pieces are counted, handleDone up to its Done event
handlePiece ==
    /\ rpc = "handlePiece" /\ Free /\ Running
    /\ LET data == Drop(frame, 2)
           i == Index(data, <<101, 101>>)
           info == DecodeBytes(Take(data, i + 2))
           piece == Drop(data, i + 2)
           n == Lookup(info.v, K_piece).n
           table == StorePiece(metadata, n, piece)
           joined == JoinPieces(table)
       IN  IF i = -1
           THEN End("invalid piece info dict")
                /\ UNCHANGED <<metadata, recvedPiece, arrived, assembled>>
           ELSE IF ~info.ok
           THEN End("decode piece dict error")
                /\ UNCHANGED <<metadata, recvedPiece, arrived, assembled>>
           ELSE IF ~IsInt(info.v, K_msg_type) \/ Lookup(info.v, K_msg_type).n # 1
           THEN End("invalid msg_type")
                /\ UNCHANGED <<metadata, recvedPiece, arrived, assembled>>
           ELSE IF ~IsInt(info.v, K_piece)
           THEN End("invalid piece")
                /\ UNCHANGED <<metadata, recvedPiece, arrived, assembled>>
           ELSE IF n < 0 \/ n >= Len(metadata)
           THEN Panic("index out of range: p.metadata[n]")
                /\ UNCHANGED <<metadata, recvedPiece, arrived, assembled>>
           ELSE /\ metadata' = table
                /\ recvedPiece' = recvedPiece + 1
                /\ arrived' = Append(arrived, <<n, piece>>)
                /\ IF Complete(recvedPiece + 1, pieceLength)
                   THEN /\ assembled' = Append(assembled, joined)
                        /\ IF ~DecodeBytes(joined).ok
                           THEN End("Decode metadata error")
                           ELSE SendEvent(Ev(EventDone, "", NewResult(joined)), "Done")
                   ELSE /\ Goto("write")
                        /\ UNCHANGED assembled
    /\ frame' = <<>>
    /\ UNCHANGED <<ppc, Data, Size, Handler, HandlerSize, length, utmetadata,
                   pieceLength, reqI, pipeVal, event, netVars, received, written,
                   results, peerVars, shortReads>>

\* line 297: handleDone's close(p.event), after the Done event was received
handleDone ==
    /\ rpc = "Done" /\ Free /\ Running
    /\ IF event = "open"
       THEN event' = "closed" /\ Goto("write")
       ELSE UNCHANGED event /\ Panic("close of closed channel")
    /\ UNCHANGED <<ppc, procVars, pipeVal, netVars, received, written, results,
                   arrived, assembled, peerVars, shortReads>>

(***************************************************************************)
(* Wire.Pipe                                                               *)
(***************************************************************************)
\* lines 126-127: an outbound message is received and written
PipeOutput ==
    /\ ppc = "select" /\ Running
    /\ sending.ch = "output"
    /\ written' = IF conn = "open" THEN Append(written, sending.val) ELSE written
    /\ sending' = NoSend
    /\ UNCHANGED <<rpc, ppc, fault, procVars, pipeVal, event, netVars, emitted,
                   received, results, arrived, assembled, peerVars, shortReads>>

\* lines 128 and 133-145: an event is received; Error and Done are forwarded
\* to Result
PipeEvent ==
    /\ ppc = "select" /\ Running
    /\ sending.ch = "event" /\ event = "open"
    /\ received' = Append(received, sending.val.type)
    /\ sending' = NoSend
    /\ IF sending.val.type = EventError
       THEN ppc' = "result" /\ pipeVal' = NewError(sending.val.reason)
       ELSE IF sending.val.type = EventDone
       THEN ppc' = "result" /\ pipeVal' = sending.val.result
       ELSE UNCHANGED <<ppc, pipeVal>>
    /\ UNCHANGED <<rpc, fault, procVars, event, netVars, emitted, written, results,
                   arrived, assembled, peerVars, shortReads>>

\* lines 128-132: the event channel is closed; the connection is closed and
\* `break` leaves the select, not the loop
PipeClosed ==
    /\ ppc = "select" /\ Running
    /\ event = "closed"
    /\ closes < MaxCloses
    /\ conn' = "closed"
    /\ closes' = closes + 1
    /\ UNCHANGED <<rpc, ppc, fault, procVars, chanVars, peerClosed, inbound, buf,
                   histVars>>

(***************************************************************************)
(* The environment: the caller of Download and the peer.                   *)
(***************************************************************************)
\* the caller receives from Wire.Result what Pipe or Download is sending
CallerReceive ==
    /\ Running
    /\ \/ /\ ppc = "result"
          /\ results' = Append(results, pipeVal)
          /\ ppc' = "select"
          /\ UNCHANGED sending
       \/ /\ sending.ch = "result"
          /\ results' = Append(results, sending.val)
          /\ sending' = NoSend
          /\ UNCHANGED ppc
    /\ UNCHANGED <<rpc, fault, procVars, pipeVal, event, netVars, emitted, received,
                   written, arrived, assembled, peerVars, shortReads>>

\* What the peer sends is seen by the program at its next Conn.Read only, so
\* the peer's steps are taken while the read loop is at Conn.Read.
PeerTurn == rpc = "read" /\ Running /\ conn = "open" /\ ~peerClosed

PeerHandshake ==
    /\ PeerTurn /\ peerHs = "none"
    /\ \E kind \in HsKinds, prof \in Profiles :
          /\ peerHs' = kind
          /\ profile' = prof
          /\ inbound' = inbound \o PeerHs(kind)
    /\ UNCHANGED <<rpc, ppc, fault, procVars, chanVars, conn, closes, peerClosed, buf,
                   emitted, received, written, results, arrived, assembled, nSent,
                   shortReads>>

PeerSend ==
    /\ PeerTurn /\ peerHs # "none"
    /\ nSent < MaxPeerMsgs
    /\ Len(inbound) < PeerWindow
    /\ \E m \in PeerMenu(profile) : inbound' = inbound \o m
    /\ nSent' = nSent + 1
    /\ UNCHANGED <<rpc, ppc, fault, procVars, chanVars, conn, closes, peerClosed, buf,
                   emitted, received, written, results, arrived, assembled, peerHs,
                   profile, shortReads>>

\* the peer closes once all it sent was read (a close is seen by Conn.Read
\* only then)
PeerClose ==
    /\ PeerTurn /\ inbound = <<>>
    /\ peerClosed' = TRUE
    /\ UNCHANGED <<rpc, ppc, fault, procVars, chanVars, conn, closes, inbound, buf,
                   histVars>>

Next ==
    \/ MakeEvent \/ Download \/ Start \/ Read \/ ReadError \/ WriteReturn
    \/ handleHandshakeLen \/ handleHandshake \/ handshakeOk \/ EndClose
    \/ handleHead \/ handleBody \/ handleExtHandshake \/ requests
    \/ handlePiece \/ handleDone
    \/ PipeOutput \/ PipeEvent \/ PipeClosed
    \/ CallerReceive \/ PeerHandshake \/ PeerSend \/ PeerClose

Spec == Init /\ [][Next]_vars


(***************************************************************************)
(* Properties.                                                             *)
(***************************************************************************)
\* nothing can happen any more: every goroutine is blocked for ever, has
\* returned, or the program has panicked
Quiescent == ~ENABLED Next

\* sends on Wire.Result: the values received and the senders still blocked
ResultSends ==
    Len(results) + (IF ppc = "result" THEN 1 ELSE 0)
                 + (IF sending.ch = "result" THEN 1 ELSE 0)

\* C1: in one attempt at most one value is sent on Wire.Result: once Pipe has
\* forwarded the result of an Error or Done event, Download sends (or blocks
\* sending) no other.
C1_OneResult == ResultSends <= 1

\* C2: the read loop and the dispatch loop never deadlock: whenever a handler
\* is blocked handing an event or an outbound message to Pipe, Pipe can
\* receive it, now or once the caller has taken the result Pipe is sending.
C2_HandoffReceived ==
    sending.ch \in {"event", "output"} =>
        (ppc = "result" \/ ENABLED PipeEvent \/ ENABLED PipeOutput)

Count(seq, x) == Cardinality({i \in 1..Len(seq) : seq[i] = x})

\* C3: for a peer handshake with the canonical protocol name and the extension
\* bit set, however its bytes are split across reads, the first event Pipe
\* receives is HandshakeOk and HandshakeOk is received once only.
C3_HandshakeOkFirst ==
    (peerHs = "valid" /\ received # <<>>) =>
        (received[1] = EventHandshake /\ Count(received, EventHandshake) = 1)

\* the attempt has ended with a terminal error delivered as the result
ErrorDelivered == results # <<>> /\ results[1].error # ""

\* C4: when the peer's handshake has bit 0x10 of reserved byte 5 clear, neither
\* HandshakeOk nor the extended handshake is ever produced, and once nothing
\* can happen any more a terminal error has been delivered as the result.
C4_NoExtensionBitError ==
    peerHs = "noext" =>
        /\ Count(emitted, EventHandshake) = 0
        /\ Count(written, packetExtendedData) = 0
        /\ Quiescent => ErrorDelivered

\* C5: when the peer's protocol name differs from "BitTorrent protocol", the
\* only message ever written is the local handshake, and once nothing can
\* happen any more a terminal error has been delivered as the result.
C5_ProtocolMismatchError ==
    peerHs = "foo" =>
        /\ \A i \in 1..Len(written) : i = 1 /\ written[i] = packetHandshakeData
        /\ Quiescent => ErrorDelivered

\* the extended handshake in `data` declares ut_metadata and metadata_size as
\* integers, and ut_metadata is zero or metadata_size is outside (0, 1 MiB]
DeclaresInvalid(data) ==
    LET ext == DecodeBytes(Drop(data, 2)).v
    IN  /\ IsInt(ext, K_metadata_size) /\ IsMap(ext, K_m)
        /\ IsInt(Lookup(ext, K_m), K_ut_metadata)
        /\ \/ Lookup(Lookup(ext, K_m), K_ut_metadata).n = 0
           \/ Lookup(ext, K_metadata_size).n <= 0
           \/ Lookup(ext, K_metadata_size).n > MaxMetadataSize

\* C6: when handleExtHandshake has handled an extended handshake whose
\* ut_metadata is zero or whose metadata_size is not in (0, 1 MiB], its next
\* statement is the send of a terminal Error, and not a piece request.
C6_InvalidExtendedError ==
    [][(rpc = "handleExtHandshake" /\ rpc' # rpc /\ DeclaresInvalid(frame)) =>
           (rpc' = "End" /\ sending'.ch = "event" /\ sending'.val.type = EventError)]_vars

\* every index of the table was stored exactly once since the table was made
EachIndexOnce ==
    /\ Len(arrived) = pieceLength
    /\ \A i \in 0..(pieceLength - 1) : \E k \in 1..Len(arrived) : arrived[k][1] = i

\* the piece stored for index i
ArrivedAt(i) == arrived[CHOOSE k \in 1..Len(arrived) : arrived[k][1] = i][2]

\* piece 0, piece 1, ..., piece pieceLength-1
ByIndex == Flatten([i \in 1..pieceLength |-> ArrivedAt(i - 1)])

\* C7: when every index of the table was delivered once, in whatever order,
\* handleDone joins piece 0, piece 1, ..., piece pieceCount-1: the assembly
\* is keyed by the index in the message, not by the order of arrival.
C7_AssemblyByIndex ==
    (assembled # <<>> /\ EachIndexOnce) => assembled[Len(assembled)] = ByIndex

\* the pieces arrived as index 1, then index 0, and were assembled
C7_OutOfOrderAssembled ==
    /\ assembled # <<>>
    /\ arrived = << <<1, PayB>>, <<0, PayA>> >>

\* C8: the assembly does not start while some index in [0, pieceCount) has
\* never been received, however many piece messages were delivered.
C8_CompleteWhenAllFilled ==
    assembled # <<>> =>
        \A i \in 0..(pieceLength - 1) : \E k \in 1..Len(arrived) : arrived[k][1] = i

\* the request for piece i: a length prefix, message id 20, the sub-id and a
\* dictionary that decodes to exactly {msg_type: 0, piece: i}
IsPieceRequest(msg, utm, i) ==
    /\ Len(msg) >= 6
    /\ ReadBE32(Take(msg, 4)) = Len(msg) - 4
    /\ msg[5] = BtMessageID
    /\ msg[6] = utm % 256
    /\ DecodeBytes(Drop(msg, 6)).ok
    /\ DecodeBytes(Drop(msg, 6)).nx = Len(msg) - 6 + 1
    /\ DecodeBytes(Drop(msg, 6)).v = PieceDict(0, i)

\* C9: the message packetPieceRequestData(i) hands to Pipe is a length prefix,
\* message id 20, the peer's ut_metadata sub-id and a dictionary that decodes
\* to exactly {msg_type: 0, piece: i}.
C9_PieceRequestRoundTrip ==
    (rpc = "requests" /\ sending.ch = "output") =>
        IsPieceRequest(sending.val, utmetadata, reqI)

\* C10: once the request loop of the first extended handshake is over, what
\* was written is the local handshake, the extended handshake and then one
\* piece request per index 0..pieceCount-1, in increasing order.
C10_RequestsInOrder ==
    (rpc = "requests" /\ Free /\ reqI + 1 >= pieceLength
       /\ Count(received, EventExtended) = 1) =>
        /\ Len(written) = 2 + pieceLength
        /\ written[1] = packetHandshakeData
        /\ written[2] = packetExtendedData
        /\ \A i \in 0..(pieceLength - 1) : IsPieceRequest(written[3 + i], utmetadata, i)

\* C11: the frame handed to a handler is the bytes the peer sent, however
\* they were split into reads: the frame the handshake-body handler is about
\* to get is the peer's handshake after its length byte.
C11_FrameAsSent ==
    (rpc = "write" /\ Free /\ Running /\ Handler = "handshakeBody"
       /\ Size >= HandlerSize) =>
        Frame = Tail(PeerHs(peerHs))

\* Write hands a frame to the installed handler in this step
FrameHanded == rpc = "write" /\ Size' < Size

\* C12: once an Error was emitted (Processor.End was called), no frame is
\* handed to a handler any more.
C12_NoFrameAfterError ==
    [][Count(emitted, EventError) > 0 => ~FrameHanded]_vars

\* C13: the assembly runs at most once and nothing is sent on, or closes, the
\* event channel once it is closed.
C13_OneTerminalEvent ==
    /\ Len(assembled) <= 1
    /\ fault \notin {"send on closed channel", "close of closed channel"}

\* C14: handleBody dispatches a body to the extended-message handling if and
\* only if its first byte is the extended-message id 20; any other body is
\* ignored and Write's loop goes on.
C14_DispatchOnlyId20 ==
    [][(FrameHanded /\ Handler = "handleBody") =>
           ((rpc' # "write") <=> (Frame[1] = BtMessageID))]_vars

\* C15: a piece message whose index is outside the table never makes the
\* program index the table out of range.
C15_PieceIndexChecked == fault # "index out of range: p.metadata[n]"

\* the extended handshake in `data` lacks an integer metadata_size, the map m,
\* or an integer ut_metadata in it
LacksKey(data) ==
    LET ext == DecodeBytes(Drop(data, 2)).v
    IN  ~(/\ IsInt(ext, K_metadata_size) /\ IsMap(ext, K_m)
          /\ IsInt(Lookup(ext, K_m), K_ut_metadata))

\* C16: when handleExtHandshake has handled an extended handshake that lacks
\* a required key, its next statement is the send of a terminal Error.
C16_MissingKeyError ==
    [][(rpc = "handleExtHandshake" /\ rpc' # rpc /\ LacksKey(frame)) =>
           (rpc' = "End" /\ sending'.ch = "event" /\ sending'.val.type = EventError)]_vars

\* C17: when handleExtHandshake rejects an extended handshake, no ExtendedOk
\* event was emitted for it and no piece table was made for it.
C17_ExtendedOkAfterValidation ==
    [][(rpc = "handleExtHandshake" /\ rpc' = "End") =>
           (emitted[Len(emitted)] # EventExtended /\ metadata' = metadata)]_vars

\* C18: once the event channel is closed Pipe closes the socket once and does
\* nothing more.
C18_PipeClosesOnce == closes <= 1

RECURSIVE HeldBytes(_)
\* the number of bytes the chunks of Processor.Data hold
HeldBytes(chunks) ==
    IF chunks = <<>> THEN 0 ELSE Head(chunks).n + HeldBytes(Tail(chunks))

\* C19: after Start the demanded frame size is at least 1, Size is the number
\* of bytes held in Data, and when Write has returned Size < HandlerSize.
C19_Reassembler ==
    Handler # "none" =>
        /\ HandlerSize >= 1
        /\ Size = HeldBytes(Data)
        /\ rpc \in {"read", "returned"} => Size < HandlerSize

\* keep-alives were read and handled: the demand is still the 4-byte length
C19_KeepAliveHandled ==
    /\ profile = "plain" /\ nSent >= 1 /\ inbound = <<>>
    /\ rpc = "read" /\ Running
    /\ Handler = "handleHead" /\ HandlerSize = 4 /\ Size = 0

\* C20: no message makes handleBody or handleExtended read outside the frame
\* it was given.
C20_NoReadOutsideFrame == fault # "index out of range: data[1]"

=============================================================================
